---------------------------- MODULE Spec2Model ----------------------------
(***************************************************************************)
(* ScottBott: a chat bot that answers messages through two LLM providers   *)
(* with failover (llm_handler.py), keeps a per-channel conversation        *)
(* memory and a file of timed reminders polled by a background loop        *)
(* (main.py).                                                              *)
(*                                                                         *)
(* Strings are modelled as sequences of runs.  A run [t, k, n] is the      *)
(* piece of text named t (k tells apart the texts of different turns)      *)
(* cut to its first n characters; the newline is a run of its own.  The    *)
(* code only ever takes prefixes of a text (s[:1500], s[:3997]), so two    *)
(* runs are the same characters exactly when they are equal.               *)
(***************************************************************************)
EXTENDS Integers, Sequences, FiniteSets, TLC

VARIABLES
    channel_memories,   \* main.py:73   channel id -> ConversationBufferMemory._history
    built,              \* the last prompt built by _build_prompt_with_history, with its inputs
    env_PRIMARY_LLM,    \* os.environ["PRIMARY_LLM"] ("unset" when absent)
    startup_PRIMARY_LLM,\* the value PRIMARY_LLM had when the process started
    env_changes,        \* how often PRIMARY_LLM was changed since the process started
    received,           \* how many messages have reached process_llm_message
    task,               \* per handler: the process_llm_message coroutine of its message
    calls,              \* per handler: the get_response calls of its message, with their attempts
    log,                \* per handler: what get_response logged for its message
    sent,               \* per handler: the texts channel.send delivered for its message
    file,               \* reminders.json: whether it exists, parses as JSON, and its array
    now,                \* the UTC clock
    poller,             \* per on_ready event: its check_reminders_loop task
    ticks,              \* per loop: what its tick in progress read and has attempted
    finished,           \* the tick that ended in the last step, if one did
    last_drain,         \* the last finished tick, while no reminder was created since
    created,            \* the reminders handle_reminder has written, in order
    popped,             \* the ids of the reminders some tick has taken as due
    last_reply,         \* the reply handle_reminder sent in the last step, if it did
    parse,              \* a message text and what parse_natural_language_reminder returns for it
    dispatch,           \* on_message: the messages dispatched and what ran for the last one
    purge,              \* purge_slash: one /purge interaction and the channel's history
    delivered           \* per reminder id: how often channel.send went through for it

vars == <<channel_memories, built, env_PRIMARY_LLM, startup_PRIMARY_LLM, env_changes, received,
          task, calls, log, sent, file, now, poller, ticks, finished, last_drain, created,
          popped, last_reply, parse, dispatch, purge, delivered>>

llmVars == <<env_PRIMARY_LLM, startup_PRIMARY_LLM, env_changes, received, task, calls, log,
            sent>>
remVars == <<file, now, poller, ticks, finished, last_drain, created, popped, last_reply>>
auxVars == <<parse, dispatch, purge, delivered>>

-----------------------------------------------------------------------------
(* Bounds of the model *)

MaxTurns == 4       \* turns saved into the memory whose prompt is built
MaxMsgs == 2        \* inbound messages that reach process_llm_message
MaxEnvChanges == 1  \* changes of the PRIMARY_LLM setting during the process
MaxReminders == 3   \* reminders created by handle_reminder
MaxTime == 1        \* the clock runs 0..MaxTime

-----------------------------------------------------------------------------
(* Strings *)

Run(t, k, n) == [t |-> t, k |-> k, n |-> n]
Lit(t, n) == <<Run(t, 0, n)>>
NL == Run("\n", 0, 1)

RECURSIVE StrLen(_)
StrLen(s) == IF s = <<>> THEN 0 ELSE Head(s).n + StrLen(Tail(s))

\* s[:n]
RECURSIVE Prefix(_, _)
Prefix(s, n) ==
    IF s = <<>> \/ n <= 0 THEN <<>>
    ELSE IF Head(s).n <= n THEN <<Head(s)>> \o Prefix(Tail(s), n - Head(s).n)
    ELSE <<[Head(s) EXCEPT !.n = n]>>

\* sep.join(strs)
RECURSIVE Join(_, _)
Join(strs, sep) ==
    IF strs = <<>> THEN <<>>
    ELSE IF Len(strs) = 1 THEN strs[1]
    ELSE strs[1] \o sep \o Join(Tail(strs), sep)

\* s.split("\n"): the pieces between newlines, empty pieces included
RECURSIVE SplitNL(_, _)
SplitNL(s, cur) ==
    IF s = <<>> THEN <<cur>>
    ELSE IF Head(s) = NL THEN <<cur>> \o SplitNL(Tail(s), <<>>)
    ELSE SplitNL(Tail(s), Append(cur, Head(s)))

\* s.splitlines(): as split("\n"), without the empty piece after a final newline
SplitLines(s) ==
    LET pieces == SplitNL(s, <<>>)
    IN  IF pieces[Len(pieces)] = <<>> THEN SubSeq(pieces, 1, Len(pieces) - 1)
        ELSE pieces

\* lines[-n:]
LastN(lines, n) ==
    IF Len(lines) <= n THEN lines ELSE SubSeq(lines, Len(lines) - n + 1, Len(lines))

-----------------------------------------------------------------------------
(* llm_handler.py: the personas and _build_prompt_with_history *)

system_prompt == Lit("system_prompt", 698)      \* the persona of line 79
system_message == Lit("system_message", 769)    \* Sonar's persona, line 193 (never cite sources)

max_lines == 12

\* ConversationBufferMemory.load_memory_variables({})["history"]
load_memory_variables(history) == Join(history, <<NL>>)

\* ConversationBufferMemory.save_context  (faulty variant: the last write wins, the
\* history is replaced by the turn)
save_contextLastWins(history, user, bot) ==
    <<Lit("User: ", 6) \o user, Lit("Assistant: ", 11) \o bot>>
\* ConversationBufferMemory.save_context
save_context(history, user, bot) ==
    LET h1 == IF user # <<>> THEN Append(history, Lit("User: ", 6) \o user) ELSE history
    IN  IF bot # <<>> THEN Append(h1, Lit("Assistant: ", 11) \o bot) ELSE h1

\* lines[-max_lines:]  (faulty variant: lines[:max_lines])
TrimHistoryFirst(lines) == SubSeq(lines, 1, IF Len(lines) < max_lines THEN Len(lines) ELSE max_lines)
TrimHistory(lines) == LastN(lines, max_lines)

\* _build_prompt_with_history(prompt, memory), memory holding `history`
_build_prompt_with_history(prompt, history) ==
    LET hist == load_memory_variables(history)
    IN  IF hist # <<>>
        THEN system_prompt \o <<NL, NL>> \o Lit("Conversation history:", 21) \o <<NL>>
                 \o Join(TrimHistory(SplitLines(hist)), <<NL>>) \o <<NL>>
                 \o Lit("User: ", 6) \o prompt \o <<NL>> \o Lit("Assistant:", 10)
        ELSE system_prompt \o <<NL, NL>> \o Lit("User: ", 6) \o prompt \o <<NL>>
                 \o Lit("Assistant:", 10)

\* what get_gemini_response hands to model.generate_content (line 143)
GeminiRequest(prompt, history) ==
    [provider |-> "gemini", system |-> <<>>,
     content |-> _build_prompt_with_history(prompt, history)]

\* the payload get_sonar_response posts (lines 176, 194-202)
SonarRequest(prompt, history) ==
    [provider |-> "sonar", system |-> system_message,
     content |-> _build_prompt_with_history(prompt, history)]

BuildRequest(provider, prompt, history) ==
    IF provider = "sonar" THEN SonarRequest(prompt, history)
    ELSE GeminiRequest(prompt, history)

-----------------------------------------------------------------------------
(* The prompt builder on its own: a memory is filled turn by turn and a     *)
(* prompt is built from it for either provider.                             *)

PromptChannel == "c1"
NoBuild == [done |-> FALSE]

\* texts of turn k: one line, two lines, or a line ending in a newline
UserTexts(k) == { <<Run("u1", k, 5)>>, <<Run("u1", k, 5), NL, Run("u2", k, 7)>> }
BotTexts(k) == { <<Run("b1", k, 9)>>, <<Run("b1", k, 9), NL, Run("b2", k, 4)>>,
                 <<Run("b1", k, 9), NL>> }

PromptInit ==
    /\ channel_memories = [c \in {PromptChannel} |-> <<>>]
    /\ built = NoBuild

PSaveContext ==
    /\ Len(channel_memories[PromptChannel]) < 2 * MaxTurns
    /\ \E user \in UserTexts(Len(channel_memories[PromptChannel]) \div 2 + 1),
          bot \in BotTexts(Len(channel_memories[PromptChannel]) \div 2 + 1) :
          channel_memories' = [channel_memories EXCEPT
              ![PromptChannel] = save_context(@, user, bot)]
    /\ built' = NoBuild

PBuild ==
    /\ \E provider \in {"gemini", "sonar"}, prompt \in UserTexts(0) :
          built' = [done |-> TRUE, provider |-> provider, prompt |-> prompt,
                    history |-> channel_memories[PromptChannel],
                    request |-> BuildRequest(provider, prompt, channel_memories[PromptChannel])]
    /\ UNCHANGED channel_memories

-----------------------------------------------------------------------------
(* llm_handler.py: get_response *)

\* the values of PRIMARY_LLM: at startup, and after a change
StartupValues == {"unset", "Sonar"}
EnvValues == {"unset", "Sonar", "perplexity"}

\* os.getenv("PRIMARY_LLM", "gemini")
Getenv(value, default) == IF value = "unset" THEN default ELSE value

\* str.lower()
Lower(value) == IF value = "Sonar" THEN "sonar" ELSE value

\* line 230: which provider get_response tries first and which second
\* (faulty variant: the setting is ignored)
ProviderOrderGeminiFirst(primary_llm) == <<"gemini", "sonar">>
ProviderOrder(primary_llm) ==
    IF primary_llm \in {"perplexity", "sonar"} THEN <<"sonar", "gemini">>
    ELSE <<"gemini", "sonar">>

DisplayName(provider) ==
    IF provider = "sonar" THEN Lit("Perplexity Sonar", 16) ELSE Lit("Gemini", 6)

\* lines 244 and 259: RuntimeError("Both ... and ... failed")
CombinedFailure(order) ==
    Lit("Both ", 5) \o DisplayName(order[1]) \o Lit(" and ", 5) \o DisplayName(order[2]) \o Lit(" failed", 7)

\* the logger calls of get_response
LogFirstFailed(order) == [event |-> "failed, falling back", provider |-> order[1], to |-> order[2]]
LogSecondFailed(order) == [event |-> "fallback also failed", provider |-> order[2], to |-> "none"]
LogUsing(provider) == [event |-> "using", provider |-> provider, to |-> "none"]

\* one provider invocation: get_gemini_response / get_sonar_response (prompt, memory)
Attempt(provider, prompt, memory, history) ==
    [provider |-> provider, prompt |-> prompt, memory |-> memory,
     request |-> BuildRequest(provider, prompt, history),
     outcome |-> "pending", text |-> <<>>]

\* the prompt and memory the second provider is called with (lines 239 and 254)
\* (faulty variant: the user text is not passed on)
FallbackArgsEmptyPrompt(call) == [prompt |-> <<>>, memory |-> call.memory]
FallbackArgs(call) == [prompt |-> call.prompt, memory |-> call.memory]

-----------------------------------------------------------------------------
(* main.py: process_llm_message *)

Handlers == {1, 2}      \* the process_llm_message coroutines that run at a time
Channels == {"c1", "c2"}

TriggerWords == {"scottbott", "ScottBott"}      \* re.IGNORECASE
Mention == Run("<@bot>", 0, 21)
Space == Run(" ", 0, 1)

\* the inbound messages: content, whether in a guild, the content of the message replied to
Inbound ==
    { [content |-> <<Run("scottbott", 0, 9)>>, guild |-> TRUE, reply |-> <<>>],
      [content |-> <<Mention, Space, Run("ScottBott", 0, 9), Space, Run("hello", 0, 5)>>,
       guild |-> TRUE, reply |-> <<Run("earlier", 0, 7)>>] }

RECURSIVE RemoveRuns(_, _)
RemoveRuns(s, ts) ==
    IF s = <<>> THEN <<>>
    ELSE IF Head(s).t \in ts THEN RemoveRuns(Tail(s), ts)
    ELSE <<Head(s)>> \o RemoveRuns(Tail(s), ts)

IsSpace(r) == r.t \in {" ", "\n"}

\* str.strip()
RECURSIVE LStrip(_)
LStrip(s) == IF s # <<>> /\ IsSpace(Head(s)) THEN LStrip(Tail(s)) ELSE s
RECURSIVE RStrip(_)
RStrip(s) ==
    IF s # <<>> /\ IsSpace(s[Len(s)]) THEN RStrip(SubSeq(s, 1, Len(s) - 1)) ELSE s
Strip(s) == RStrip(LStrip(s))

\* lines 262-279: the user input handed to the LLM
Clean(msg) ==
    LET unmentioned == IF msg.guild THEN RemoveRuns(msg.content, {Mention.t}) ELSE msg.content
        cleaned == RemoveRuns(unmentioned, TriggerWords)
        withReply == IF msg.reply # <<>>
                     THEN Lit("[Replying to: ", 14) \o msg.reply \o Lit("]", 1) \o <<NL>> \o cleaned
                     ELSE cleaned
    IN  Strip(withReply)

WhatsUp == Lit("What's up?", 10)
TimeoutNotice == Lit("LLM request timed out. Try again or increase LLM_TIMEOUT.", 57)

\* line 312: what the except branch sends; e is the error caught
\* (faulty variant: the error text itself)
ApologyTextRaw(e) == e
ApologyText(e) == Lit("Sorry, I encountered an error while processing your message.", 60)

\* line 297  (faulty variant: >= 4000)
NeedsRewriteAt4000(text) == StrLen(text) >= 4000
NeedsRewrite(text) == StrLen(text) > 4000

\* line 300
rewrite_prompt(response_text) ==
    Lit("Please rewrite the following response to be under 4000 characters while keeping the key points and sarcastic tone: ", 115) \o Prefix(response_text, 1500) \o Lit("...", 3)

\* line 303
TruncateFallback(response_text) == Prefix(response_text, 3997) \o Lit("...", 3)

\* what a provider may answer to call c of message m
ProviderTexts(provider, m, c) ==
    { <<Run(provider, 10 * m + c, n)>> : n \in (IF c = 1 THEN {4000, 4001} ELSE {20, 4001}) }

IdleTask ==
    [pc |-> "idle", m |-> 0, channel |-> "none", user_input |-> <<>>, call |-> 0,
     attempt |-> 0, response_text |-> <<>>, saved |-> <<>>]

\* channel_memories.get(channel_id), created when absent (lines 256-259)
WithMemory(ch) ==
    IF ch \in DOMAIN channel_memories THEN channel_memories
    ELSE [c \in DOMAIN channel_memories \cup {ch} |->
             IF c = ch THEN <<>> ELSE channel_memories[c]]

\* the channels a message may arrive in: the channels are interchangeable, so a message
\* arrives in a channel already seen or in the first one not yet seen
NextChannels ==
    {c \in Channels : c = "c1" \/ "c1" \in DOMAIN channel_memories}

\* the handler a new message runs in: the first one that is free
FreeHandler(h) ==
    /\ task[h].pc \in {"idle", "done"}
    /\ \A g \in Handlers : g < h => task[g].pc \notin {"idle", "done"}

LLMInit ==
    /\ env_PRIMARY_LLM \in StartupValues
    /\ startup_PRIMARY_LLM = env_PRIMARY_LLM
    /\ env_changes = 0
    /\ received = 0
    /\ task = [h \in Handlers |-> IdleTask]
    /\ calls = [h \in Handlers |-> <<>>]
    /\ log = [h \in Handlers |-> <<>>]
    /\ sent = [h \in Handlers |-> <<>>]

\* lines 228-233 / 248: get_response(prompt, memory) reads PRIMARY_LLM and invokes the
\* first provider; mem is channel_memories at that moment
\* (faulty variant: one memory for all channels, the first one created)
StartCallSharedMemory(prompt, memory, mem) ==
    LET order == ProviderOrder(Lower(Getenv(env_PRIMARY_LLM, "gemini")))
    IN  [prompt |-> prompt, memory |-> memory,
         primary_llm |-> env_PRIMARY_LLM, changes |-> env_changes, order |-> order,
         attempts |-> <<Attempt(order[1], prompt, memory, mem["c1"])>>,
         result |-> "pending", value |-> <<>>]
StartCall(prompt, memory, mem) ==
    LET order == ProviderOrder(Lower(Getenv(env_PRIMARY_LLM, "gemini")))
    IN  [prompt |-> prompt, memory |-> memory,
         primary_llm |-> env_PRIMARY_LLM, changes |-> env_changes, order |-> order,
         attempts |-> <<Attempt(order[1], prompt, memory, mem[memory])>>,
         result |-> "pending", value |-> <<>>]

\* lines 251-291: message number received + 1 reaches process_llm_message, which answers
\* a bare trigger word at once and otherwise awaits get_response(user_input, memory)
Receive(h) ==
    /\ received < MaxMsgs
    /\ FreeHandler(h)
    /\ received' = received + 1
    /\ log' = [log EXCEPT ![h] = <<>>]
    /\ \E ch \in NextChannels, msg \in Inbound :
          LET user_input == Clean(msg)
              t == [IdleTask EXCEPT !.m = received + 1, !.channel = ch]
          IN  /\ channel_memories' = WithMemory(ch)
              /\ IF user_input = <<>>
                 THEN /\ \E ok \in BOOLEAN :
                            sent' = [sent EXCEPT ![h] = IF ok THEN <<WhatsUp>> ELSE <<>>]
                      /\ task' = [task EXCEPT ![h] = [t EXCEPT !.pc = "done"]]
                      /\ calls' = [calls EXCEPT ![h] = <<>>]
                 ELSE /\ task' = [task EXCEPT ![h] = [t EXCEPT !.pc = "await",
                                      !.user_input = user_input, !.call = 1, !.attempt = 1]]
                      /\ calls' = [calls EXCEPT ![h] =
                                      <<StartCall(user_input, ch, WithMemory(ch))>>]
                      /\ sent' = [sent EXCEPT ![h] = <<>>]
    /\ UNCHANGED <<env_PRIMARY_LLM, startup_PRIMARY_LLM, env_changes>>

\* the except branch of process_llm_message (lines 311-313); e is the error caught
OnException(h, e) ==
    /\ \E ok \in BOOLEAN : sent' = [sent EXCEPT ![h] = IF ok THEN Append(@, ApologyText(e)) ELSE @]
    /\ task' = [task EXCEPT ![h] = [@ EXCEPT !.pc = "done"]]
    /\ UNCHANGED channel_memories

\* lines 306-309 (311-313 when the send raises): the response is sent and then saved
\* (faulty variant: saved whether or not the send went through)
SendAndSaveUnsent(h, response_text) ==
    /\ channel_memories' = [channel_memories EXCEPT ![task[h].channel] =
           save_context(@, task[h].user_input, response_text)]
    /\ task' = [task EXCEPT ![h] = [@ EXCEPT !.pc = "done",
           !.response_text = response_text,
           !.saved = Append(@, [input |-> task[h].user_input, output |-> response_text])]]
    /\ \E ok \in BOOLEAN :
          sent' = [sent EXCEPT ![h] = IF ok THEN Append(@, response_text) ELSE @]
SendAndSave(h, response_text) ==
    \E ok \in BOOLEAN :
       IF ok
       THEN /\ sent' = [sent EXCEPT ![h] = Append(@, response_text)]
            /\ channel_memories' = [channel_memories EXCEPT ![task[h].channel] =
                   save_context(@, task[h].user_input, response_text)]
            /\ task' = [task EXCEPT ![h] = [@ EXCEPT !.pc = "done",
                   !.response_text = response_text,
                   !.saved = Append(@, [input |-> task[h].user_input,
                                        output |-> response_text])]]
       ELSE /\ \E ok2 \in BOOLEAN :
                  sent' = [sent EXCEPT ![h] = IF ok2 THEN Append(@, ApologyText(<<>>)) ELSE @]
            /\ task' = [task EXCEPT ![h] = [@ EXCEPT !.pc = "done",
                   !.response_text = response_text]]
            /\ UNCHANGED channel_memories

\* lines 236-239 / 251-254: the first provider raised, the second one is invoked
\* (faulty variant: get_response raises at once)
FirstProviderFailRaises(h) ==
    /\ task[h].pc = "await" /\ task[h].attempt = 1
    /\ LET c == task[h].call
           call == calls[h][c]
       IN  /\ calls' = [calls EXCEPT ![h][c] = [@ EXCEPT
                            !.attempts[1].outcome = "failed",
                            !.result = "raised", !.value = CombinedFailure(call.order)]]
           /\ log' = [log EXCEPT ![h] = Append(@, LogFirstFailed(call.order))]
           /\ OnException(h, CombinedFailure(call.order))
    /\ UNCHANGED <<env_PRIMARY_LLM, startup_PRIMARY_LLM, env_changes, received>>
FirstProviderFail(h) ==
    /\ task[h].pc = "await" /\ task[h].attempt = 1
    /\ LET c == task[h].call
           call == calls[h][c]
           args == FallbackArgs(call)
       IN  /\ calls' = [calls EXCEPT ![h][c] = [@ EXCEPT
                            !.attempts = <<[@[1] EXCEPT !.outcome = "failed"],
                                           Attempt(call.order[2], args.prompt, args.memory,
                                                   channel_memories[args.memory])>>]]
           /\ log' = [log EXCEPT ![h] = Append(@, LogFirstFailed(call.order))]
    /\ task' = [task EXCEPT ![h] = [@ EXCEPT !.attempt = 2]]
    /\ UNCHANGED <<channel_memories, env_PRIMARY_LLM, startup_PRIMARY_LLM, env_changes,
                   received, sent>>

\* lines 242-244 / 257-259, then 311-313  (faulty variant: the rewrite call's failure
\* is caught like its timeout, and the first response is sent truncated)
SecondProviderFailTruncates(h) ==
    /\ task[h].pc = "await" /\ task[h].attempt = 2
    /\ LET c == task[h].call
           call == calls[h][c]
       IN  /\ calls' = [calls EXCEPT ![h][c] = [@ EXCEPT
                            !.attempts[2].outcome = "failed",
                            !.result = "raised", !.value = CombinedFailure(call.order)]]
           /\ log' = [log EXCEPT ![h] = Append(@, LogSecondFailed(call.order))]
           /\ IF c = 2 THEN SendAndSave(h, TruncateFallback(task[h].response_text))
              ELSE OnException(h, CombinedFailure(call.order))
    /\ UNCHANGED <<env_PRIMARY_LLM, startup_PRIMARY_LLM, env_changes, received>>
\* lines 242-244 / 257-259, then 311-313: the second provider raised too
SecondProviderFail(h) ==
    /\ task[h].pc = "await" /\ task[h].attempt = 2
    /\ LET c == task[h].call
           call == calls[h][c]
       IN  /\ calls' = [calls EXCEPT ![h][c] = [@ EXCEPT
                            !.attempts[2].outcome = "failed",
                            !.result = "raised", !.value = CombinedFailure(call.order)]]
           /\ log' = [log EXCEPT ![h] = Append(@, LogSecondFailed(call.order))]
           /\ OnException(h, CombinedFailure(call.order))
    /\ UNCHANGED <<env_PRIMARY_LLM, startup_PRIMARY_LLM, env_changes, received>>

\* lines 233-235 (239-241, 248-250, 254-256), then 296-309: the provider in flight
\* answers; an over-long first response starts the rewrite call, any other is sent
ProviderReturn(h) ==
    /\ task[h].pc = "await"
    /\ LET c == task[h].call
           a == task[h].attempt
           provider == calls[h][c].attempts[a].provider
       IN  \E text \in ProviderTexts(provider, task[h].m, c) :
              LET returned == [calls[h][c] EXCEPT
                                  !.attempts[a].outcome = "ok", !.attempts[a].text = text,
                                  !.result = "returned", !.value = text]
              IN  /\ log' = [log EXCEPT ![h] = Append(@, LogUsing(provider))]
                  /\ IF c = 1 /\ NeedsRewrite(text)
                     THEN /\ calls' = [calls EXCEPT ![h] =
                                  <<returned, StartCall(rewrite_prompt(text), task[h].channel,
                                                        channel_memories)>>]
                          /\ task' = [task EXCEPT ![h] = [@ EXCEPT !.call = 2, !.attempt = 1,
                                          !.response_text = text]]
                          /\ UNCHANGED <<channel_memories, sent>>
                     ELSE /\ calls' = [calls EXCEPT ![h][c] = returned]
                          /\ SendAndSave(h, text)
    /\ UNCHANGED <<env_PRIMARY_LLM, startup_PRIMARY_LLM, env_changes, received>>

\* lines 291-294 and 301-309: asyncio.wait_for cancels the call after LLM_TIMEOUT
\* (faulty variant: a timeout of the first call is handled like one of the rewrite call)
ProviderTimeoutTruncates(h) ==
    /\ task[h].pc = "await"
    /\ LET c == task[h].call
           a == task[h].attempt
       IN  /\ calls' = [calls EXCEPT ![h][c] = [@ EXCEPT
                            !.attempts[a].outcome = "cancelled", !.result = "cancelled"]]
           /\ SendAndSave(h, TruncateFallback(task[h].response_text))
    /\ UNCHANGED <<env_PRIMARY_LLM, startup_PRIMARY_LLM, env_changes, received, log>>
ProviderTimeout(h) ==
    /\ task[h].pc = "await"
    /\ LET c == task[h].call
           a == task[h].attempt
       IN  /\ calls' = [calls EXCEPT ![h][c] = [@ EXCEPT
                            !.attempts[a].outcome = "cancelled", !.result = "cancelled"]]
           /\ IF c = 1
              THEN \E ok \in BOOLEAN :
                      IF ok
                      THEN /\ sent' = [sent EXCEPT ![h] = Append(@, TimeoutNotice)]
                           /\ task' = [task EXCEPT ![h] = [@ EXCEPT !.pc = "done"]]
                           /\ UNCHANGED channel_memories
                      ELSE OnException(h, <<>>)
              ELSE SendAndSave(h, TruncateFallback(task[h].response_text))
    /\ UNCHANGED <<env_PRIMARY_LLM, startup_PRIMARY_LLM, env_changes, received, log>>

\* the PRIMARY_LLM setting is changed while the process runs
SetEnv ==
    /\ env_changes < MaxEnvChanges
    /\ \E v \in EnvValues \ {env_PRIMARY_LLM} : env_PRIMARY_LLM' = v
    /\ env_changes' = env_changes + 1
    /\ UNCHANGED <<channel_memories, startup_PRIMARY_LLM, received, task, calls, log, sent>>

-----------------------------------------------------------------------------
(* main.py: the reminder store, handle_reminder and check_reminders_loop *)

\* the check_reminders_loop tasks: on_ready starts one each time it fires
Pollers == {1, 2}

\* the durations parse_natural_language_reminder hands to handle_reminder
Durations == {0, 1, 30 * 24 * 3600, 30 * 24 * 3600 + 1}

MissingFile == [exists |-> FALSE, valid |-> FALSE, data |-> <<>>]
CorruptFile == [exists |-> TRUE, valid |-> FALSE, data |-> <<>>]
JsonFile(reminders) == [exists |-> TRUE, valid |-> TRUE, data |-> reminders]

\* line 147  (faulty variant: <)
DueRemindersStrict(reminders, now_ts) ==
    SelectSeq(reminders, LAMBDA r : r.trigger_time < now_ts)
DueReminders(reminders, now_ts) ==
    SelectSeq(reminders, LAMBDA r : r.trigger_time <= now_ts)

\* line 148
FutureReminders(reminders, now_ts) ==
    SelectSeq(reminders, LAMBDA r : r.trigger_time > now_ts)

\* line 201  (faulty variant: the limit is 31 days)
TooFarAt31Days(seconds) == seconds > 31 * 24 * 3600
TooFar(seconds) == seconds > 30 * 24 * 3600

OffPoller == [pc |-> "off", now_ts |-> 0, due |-> <<>>, future |-> <<>>, i |-> 0]
SleepingPoller == [OffPoller EXCEPT !.pc = "sleep"]
NoTick == [read |-> <<>>, attempted |-> <<>>, clean |-> TRUE, second |-> FALSE]
NoFinished == [done |-> FALSE, T |-> 0, read |-> <<>>, attempted |-> <<>>, after |-> <<>>,
               clean |-> TRUE, second |-> FALSE, wrote |-> FALSE, logged |-> FALSE]
NoDrain == [valid |-> FALSE, T |-> 0, wrote |-> FALSE]

RemindersInit ==
    /\ file \in {MissingFile, CorruptFile, JsonFile(<<>>)}
    /\ now = 0
    /\ poller = [p \in Pollers |-> OffPoller]
    /\ ticks = [p \in Pollers |-> NoTick]
    /\ finished = NoFinished
    /\ last_drain = NoDrain
    /\ created = <<>>
    /\ popped = {}
    /\ last_reply = "none"

\* a store operation of somebody else falls into the tick of every loop that is delivering
Disturb(tk, except) ==
    [q \in Pollers |-> IF q # except /\ poller[q].pc = "deliver"
                       THEN [tk[q] EXCEPT !.clean = FALSE] ELSE tk[q]]

\* lines 170-173: on_ready starts a check_reminders_loop task
OnReady(p) ==
    /\ poller[p].pc = "off"
    /\ p > 1 => poller[p - 1].pc # "off"
    /\ poller' = [poller EXCEPT ![p] = SleepingPoller]
    /\ finished' = NoFinished
    /\ last_reply' = "none"
    /\ UNCHANGED <<file, now, ticks, last_drain, created, popped>>

\* lines 190-229: a message that parses as a reminder of `seconds` seconds
\* (faulty variant: a file that does not parse is left as it is)
HandleReminderKeepsCorrupt ==
    /\ \E seconds \in Durations :
          IF TooFar(seconds)
          THEN /\ last_reply' = "rejected"
               /\ UNCHANGED <<file, created, ticks, last_drain>>
          ELSE LET new_reminder == [id |-> Len(created) + 1, trigger_time |-> now + seconds]
               IN  /\ Len(created) < MaxReminders
                   /\ file' = IF file.exists /\ ~file.valid THEN file
                              ELSE JsonFile(Append(file.data, new_reminder))
                   /\ created' = Append(created, new_reminder)
                   /\ last_reply' = "confirmed"
                   /\ ticks' = Disturb(ticks, 0)
                   /\ last_drain' = NoDrain
    /\ finished' = NoFinished
    /\ UNCHANGED <<now, poller, popped>>
HandleReminder ==
    /\ \E seconds \in Durations :
          IF TooFar(seconds)
          THEN /\ last_reply' = "rejected"
               /\ UNCHANGED <<file, created, ticks, last_drain>>
          ELSE LET new_reminder == [id |-> Len(created) + 1, trigger_time |-> now + seconds]
                   reminders == IF file.exists /\ file.valid THEN file.data ELSE <<>>
               IN  /\ Len(created) < MaxReminders
                   /\ file' = JsonFile(Append(reminders, new_reminder))
                   /\ created' = Append(created, new_reminder)
                   /\ last_reply' = "confirmed"
                   /\ ticks' = Disturb(ticks, 0)
                   /\ last_drain' = NoDrain
    /\ finished' = NoFinished
    /\ UNCHANGED <<now, poller, popped>>

\* the tick of this loop follows a finished tick at the same time, with no reminder
\* created in between
FollowsDrain == last_drain.valid /\ last_drain.T = now

\* the record of a tick that ended without delivering anything; json.load raises on a
\* file that does not parse, which line 165 logs
QuietTick(read) ==
    [done |-> TRUE, T |-> now, read |-> read, attempted |-> <<>>, after |-> read,
     clean |-> TRUE, second |-> FollowsDrain, wrote |-> FALSE,
     logged |-> file.exists /\ ~file.valid]

\* lines 137-150: a tick begins: the file is read and split, the first delivery is awaited
TickStart(p) ==
    /\ poller[p].pc = "sleep"
    /\ IF ~file.exists \/ ~file.valid
       THEN /\ finished' = QuietTick(<<>>)
            /\ UNCHANGED <<poller, ticks, last_drain, popped>>
       ELSE LET due_reminders == DueReminders(file.data, now)
                future_reminders == FutureReminders(file.data, now)
            IN  IF due_reminders = <<>>
                THEN /\ finished' = QuietTick(file.data)
                     /\ last_drain' = IF FollowsDrain THEN last_drain
                                      ELSE [valid |-> TRUE, T |-> now, wrote |-> FALSE]
                     /\ UNCHANGED <<poller, ticks, popped>>
                ELSE /\ popped' = popped \cup {due_reminders[i].id : i \in DOMAIN due_reminders}
                     /\ poller' = [poller EXCEPT ![p] =
                            [pc |-> "deliver", now_ts |-> now, due |-> due_reminders,
                             future |-> future_reminders, i |-> 1]]
                     /\ ticks' = [ticks EXCEPT ![p] =
                            [read |-> file.data, attempted |-> <<>>, clean |-> TRUE,
                             second |-> FollowsDrain]]
                     /\ finished' = NoFinished
                     /\ UNCHANGED last_drain
    /\ last_reply' = "none"
    /\ UNCHANGED <<file, now, created>>

\* the record of the tick of loop p when it ends
EndedTick(p, attempted, after, wrote) ==
    [done |-> TRUE, T |-> poller[p].now_ts, read |-> ticks[p].read, attempted |-> attempted,
     after |-> after, clean |-> ticks[p].clean, second |-> ticks[p].second, wrote |-> wrote,
     logged |-> ~wrote]

\* lines 160-163: the file is rewritten with the future reminders, and the tick ends
FinishTick(p, attempted) ==
    /\ file' = JsonFile(poller[p].future)
    /\ poller' = [poller EXCEPT ![p] = SleepingPoller]
    /\ ticks' = [Disturb(ticks, p) EXCEPT ![p] = NoTick]
    /\ finished' = EndedTick(p, attempted, poller[p].future, TRUE)
    /\ last_drain' = [valid |-> TRUE, T |-> poller[p].now_ts, wrote |-> TRUE]

\* lines 164-165: an error leaves the tick; it is logged and the loop sleeps
AbortTick(p, attempted) ==
    /\ poller' = [poller EXCEPT ![p] = SleepingPoller]
    /\ ticks' = [ticks EXCEPT ![p] = NoTick]
    /\ finished' = EndedTick(p, attempted, file.data, FALSE)
    /\ UNCHANGED <<file, last_drain>>

\* lines 151-163: the delivery in flight ends, sent or failed (a reminder whose channel
\* is not known ends like a sent one, with nothing sent); the next one begins, or after
\* the last one the file is rewritten
\* (faulty variant: a failed delivery leaves the tick)
DeliveryDoneAborting(p) ==
    /\ poller[p].pc = "deliver"
    /\ \E outcome \in {"sent", "failed"} :
          LET reminder == poller[p].due[poller[p].i]
              attempted == Append(ticks[p].attempted, [id |-> reminder.id, outcome |-> outcome])
          IN  IF outcome = "failed"
              THEN AbortTick(p, attempted)
              ELSE IF poller[p].i < Len(poller[p].due)
              THEN /\ poller' = [poller EXCEPT ![p].i = @ + 1]
                   /\ ticks' = [ticks EXCEPT ![p].attempted = attempted]
                   /\ finished' = NoFinished
                   /\ UNCHANGED <<file, last_drain>>
              ELSE FinishTick(p, attempted)
    /\ last_reply' = "none"
    /\ UNCHANGED <<now, created, popped>>
DeliveryDone(p) ==
    /\ poller[p].pc = "deliver"
    /\ \E outcome \in {"sent", "failed"} :
          LET reminder == poller[p].due[poller[p].i]
              attempted == Append(ticks[p].attempted, [id |-> reminder.id, outcome |-> outcome])
          IN  IF poller[p].i < Len(poller[p].due)
              THEN /\ poller' = [poller EXCEPT ![p].i = @ + 1]
                   /\ ticks' = [ticks EXCEPT ![p].attempted = attempted]
                   /\ finished' = NoFinished
                   /\ UNCHANGED <<file, last_drain>>
              ELSE FinishTick(p, attempted)
    /\ last_reply' = "none"
    /\ UNCHANGED <<now, created, popped>>

\* lines 143-144 and 164-167: the file is there but opening or reading it raises; the
\* error is logged and the loop sleeps
TickReadFails(p) ==
    /\ poller[p].pc = "sleep"
    /\ file.exists
    /\ finished' = [QuietTick(<<>>) EXCEPT !.logged = TRUE]
    /\ last_reply' = "none"
    /\ UNCHANGED <<file, now, poller, ticks, last_drain, created, popped>>

\* lines 160-167: rewriting the file raises, before or after it was truncated; the error
\* is logged and the loop sleeps
\* (faulty variant: the error ends the loop)
FailedWriteEndsLoop(p, attempted) ==
    /\ \E left \in {file, CorruptFile} : file' = left
    /\ poller' = [poller EXCEPT ![p] = [OffPoller EXCEPT !.pc = "ended"]]
    /\ ticks' = [Disturb(ticks, p) EXCEPT ![p] = NoTick]
    /\ finished' = EndedTick(p, attempted, <<>>, FALSE)
    /\ last_drain' = NoDrain
FailedWrite(p, attempted) ==
    /\ \E left \in {file, CorruptFile} : file' = left
    /\ poller' = [poller EXCEPT ![p] = SleepingPoller]
    /\ ticks' = [Disturb(ticks, p) EXCEPT ![p] = NoTick]
    /\ finished' = EndedTick(p, attempted, <<>>, FALSE)
    /\ last_drain' = NoDrain

\* lines 151-167: the last delivery of a tick ends and the file cannot be rewritten
DeliveryDoneWriteFails(p) ==
    /\ poller[p].pc = "deliver"
    /\ poller[p].i = Len(poller[p].due)
    /\ \E outcome \in {"sent", "failed"} :
          LET reminder == poller[p].due[poller[p].i]
          IN  FailedWrite(p, Append(ticks[p].attempted,
                                    [id |-> reminder.id, outcome |-> outcome]))
    /\ last_reply' = "none"
    /\ UNCHANGED <<now, created, popped>>

\* line 156: the sends that went through are counted for each reminder, up to "more
\* than once"; the step of loop p that ends a delivery tells the outcome
NoneDelivered == [id \in 1 .. MaxReminders |-> 0]
CountSend(p) ==
    LET reminder == poller[p].due[poller[p].i]
        attempted == IF poller'[p].pc = "deliver" THEN ticks'[p].attempted
                     ELSE finished'.attempted
    IN  delivered' =
           IF attempted[Len(attempted)].outcome = "sent" /\ delivered[reminder.id] < 2
           THEN [delivered EXCEPT ![reminder.id] = @ + 1]
           ELSE delivered

\* the clock advances
Advance ==
    /\ now < MaxTime
    /\ now' = now + 1
    /\ finished' = NoFinished
    /\ last_reply' = "none"
    /\ UNCHANGED <<file, poller, ticks, last_drain, created, popped>>

-----------------------------------------------------------------------------
(* main.py: parse_natural_language_reminder.  The two regular expressions   *)
(* work on characters, so a message text is a sequence of characters here.  *)

Uppers == <<"A", "B", "C", "D", "E", "F", "G", "H", "I", "J", "K", "L", "M",
            "N", "O", "P", "Q", "R", "S", "T", "U", "V", "W", "X", "Y", "Z">>
Lowers == <<"a", "b", "c", "d", "e", "f", "g", "h", "i", "j", "k", "l", "m",
            "n", "o", "p", "q", "r", "s", "t", "u", "v", "w", "x", "y", "z">>
Digits == <<"0", "1", "2", "3", "4", "5", "6", "7", "8", "9">>

\* str.lower(), and how re.IGNORECASE compares
LowerChar(c) ==
    IF \E i \in DOMAIN Uppers : Uppers[i] = c
    THEN Lowers[CHOOSE i \in DOMAIN Uppers : Uppers[i] = c] ELSE c
LowerText(s) == [i \in DOMAIN s |-> LowerChar(s[i])]

IsDigit(c) == \E i \in DOMAIN Digits : Digits[i] = c      \* \d
IsWhite(c) == c = " "                                     \* \s

\* int(value)
ParseInt(ds) ==
    LET value[k \in 0 .. Len(ds)] ==
            IF k = 0 THEN 0
            ELSE 10 * value[k - 1] + (CHOOSE i \in DOMAIN Digits : Digits[i] = ds[k]) - 1
    IN  value[Len(ds)]

\* str(value) in an f-string
IntToStr(n) ==
    LET places == CHOOSE k \in 1 .. 10 : n < 10 ^ k /\ (k = 1 \/ n >= 10 ^ (k - 1))
    IN  [i \in 1 .. places |-> Digits[((n \div 10 ^ (places - i)) % 10) + 1]]

\* str.strip() on a sequence of characters
Trim(s) ==
    LET inked == {i \in DOMAIN s : ~IsWhite(s[i])}
    IN  IF inked = {} THEN <<>>
        ELSE SubSeq(s, CHOOSE i \in inked : \A j \in inked : i <= j,
                       CHOOSE i \in inked : \A j \in inked : i >= j)

\* lines 96 and 101: the unit alternatives, in the order the expressions try them
UnitAlternatives ==
    << <<"s">>, <<"s", "e", "c">>, <<"s", "e", "c", "o", "n", "d">>,
       <<"s", "e", "c", "o", "n", "d", "s">>,
       <<"m">>, <<"m", "i", "n">>, <<"m", "i", "n", "u", "t", "e">>,
       <<"m", "i", "n", "u", "t", "e", "s">>,
       <<"h">>, <<"h", "r">>, <<"h", "o", "u", "r">>, <<"h", "o", "u", "r", "s">> >>

\* the literal w, given in lower case, stands at position i of s in whatever case
LiteralAt(s, i, w) ==
    /\ i >= 1
    /\ i + Len(w) - 1 <= Len(s)
    /\ \A k \in DOMAIN w : LowerChar(s[i + k - 1]) = w[k]

\* the position after the whitespace (the digits) that begins at position i
SkipWhite(s, i) ==
    CHOOSE e \in i .. Len(s) + 1 :
        /\ \A k \in i .. e - 1 : IsWhite(s[k])
        /\ e = Len(s) + 1 \/ ~IsWhite(s[e])
SkipDigits(s, i) ==
    CHOOSE e \in i .. Len(s) + 1 :
        /\ \A k \in i .. e - 1 : IsDigit(s[k])
        /\ e = Len(s) + 1 \/ ~IsDigit(s[e])

\* (?:in|after)\s+(\d+)\s* at position i: the digits matched and where the unit begins
Timing(s, i) ==
    LET word == IF LiteralAt(s, i, <<"i", "n">>) THEN i + 2
                ELSE IF LiteralAt(s, i, <<"a", "f", "t", "e", "r">>) THEN i + 5
                ELSE 0
        d1 == SkipWhite(s, word)
        d2 == SkipDigits(s, d1)
    IN  IF word = 0 THEN [ok |-> FALSE, first |-> 0, last |-> 0, unit |-> 0]
        ELSE [ok |-> d1 > word /\ d2 > d1, first |-> d1, last |-> d2 - 1,
              unit |-> SkipWhite(s, d2)]

\* the unit alternatives that stand at position u
UnitsAt(s, u) == {k \in DOMAIN UnitAlternatives : LiteralAt(s, u, UnitAlternatives[k])}

NoMatch == [ok |-> FALSE, pattern |-> 0, reminder |-> <<>>, value |-> <<>>, unit |-> <<>>]

Least(S) == CHOOSE x \in S : \A y \in S : x <= y

\* pattern1 with its "to " at position i and its lazy group (.+?) ending at position j:
\* nothing follows the unit, so the first alternative that stands there is taken
Match1At(s, i, j) ==
    /\ LiteralAt(s, i, <<"t", "o", " ">>)
    /\ j >= i + 3
    /\ j + 1 <= Len(s)
    /\ IsWhite(s[j + 1])
    /\ Timing(s, j + 2).ok
    /\ UnitsAt(s, Timing(s, j + 2).unit) # {}

\* pattern1.search: the leftmost start, and for it the shortest group
Search1(s) ==
    LET starts == {i \in DOMAIN s : \E j \in DOMAIN s : Match1At(s, i, j)}
    IN  IF starts = {} THEN NoMatch
        ELSE LET i == Least(starts)
                 j == Least({e \in DOMAIN s : Match1At(s, i, e)})
                 t == Timing(s, j + 2)
                 k == Least(UnitsAt(s, t.unit))
             IN  [ok |-> TRUE, pattern |-> 1,
                  reminder |-> SubSeq(s, i + 3, j),
                  value |-> SubSeq(s, t.first, t.last),
                  unit |-> SubSeq(s, t.unit, t.unit + Len(UnitAlternatives[k]) - 1)]

\* \s+to\s+(.+) at position e: where the group begins, 0 when it does not match; the
\* greedy \s+ gives one character back when only whitespace follows
TaskAfter(s, e) ==
    LET t == SkipWhite(s, e)
        w == SkipWhite(s, t + 2)
    IN  IF ~(t > e /\ LiteralAt(s, t, <<"t", "o">>) /\ w > t + 2) THEN 0
        ELSE IF w <= Len(s) THEN w
        ELSE IF w - 1 > t + 2 THEN w - 1
        ELSE 0

\* pattern2 at position i: the first unit alternative after which the rest matches
Match2At(s, i) ==
    /\ Timing(s, i).ok
    /\ \E k \in UnitsAt(s, Timing(s, i).unit) :
          TaskAfter(s, Timing(s, i).unit + Len(UnitAlternatives[k])) # 0

\* pattern2.search
Search2(s) ==
    LET starts == {i \in DOMAIN s : Match2At(s, i)}
    IN  IF starts = {} THEN NoMatch
        ELSE LET i == Least(starts)
                 t == Timing(s, i)
                 k == Least({a \in UnitsAt(s, t.unit) :
                                TaskAfter(s, t.unit + Len(UnitAlternatives[a])) # 0})
                 e == t.unit + Len(UnitAlternatives[k])
             IN  [ok |-> TRUE, pattern |-> 2,
                  reminder |-> SubSeq(s, TaskAfter(s, e), Len(s)),
                  value |-> SubSeq(s, t.first, t.last),
                  unit |-> SubSeq(s, t.unit, e - 1)]

\* lines 118-124  (faulty variant: a minute has 6 seconds)
UnitSecondsShortMinute(unit_lower, value) ==
    IF unit_lower \in {UnitAlternatives[k] : k \in 1..4} THEN value
    ELSE IF unit_lower \in {UnitAlternatives[k] : k \in 5..8} THEN value * 6
    ELSE IF unit_lower \in {UnitAlternatives[k] : k \in 9..12} THEN value * 3600
    ELSE 0
UnitSeconds(unit_lower, value) ==
    IF unit_lower \in {UnitAlternatives[k] : k \in 1..4} THEN value
    ELSE IF unit_lower \in {UnitAlternatives[k] : k \in 5..8} THEN value * 60
    ELSE IF unit_lower \in {UnitAlternatives[k] : k \in 9..12} THEN value * 3600
    ELSE 0

\* lines 127-129
TimeString(value, unit) ==
    LET time_str == IntToStr(value) \o <<" ">> \o LowerText(unit)
    IN  IF value = 1 /\ time_str[Len(time_str)] = "s"
        THEN SubSeq(time_str, 1, Len(time_str) - 1) ELSE time_str

\* (None, "", "")
NoneResult == [none |-> TRUE, seconds |-> 0, reminder |-> <<>>, time_str |-> <<>>]

\* lines 88-131
parse_natural_language_reminder(message_text) ==
    LET first == Search1(message_text)
        match == IF first.ok THEN first ELSE Search2(message_text)
    IN  IF ~match.ok THEN NoneResult
        ELSE LET value == ParseInt(match.value)
             IN  [none |-> FALSE,
                  seconds |-> UnitSeconds(LowerText(match.unit), value),
                  reminder |-> Trim(match.reminder),
                  time_str |-> TimeString(value, match.unit)]

\* The messages parsed: "remind me " and then the task and the time in either order, or
\* the time, the task and a second time; the words "to", "in"/"after" and the unit in
\* lower or in upper case, the task with or without more whitespace around it, the unit
\* with or without a space after the number.
RemindMe == <<"r", "e", "m", "i", "n", "d", " ", "m", "e", " ">>
CallMom == <<"c", "a", "l", "l", " ", "m", "o", "m">>

\* a message without a time (without a task) has one time (one task) that is not used
ParseInputs ==
    LET Phrasings ==
    [layout : {"task first", "time first", "time, task, time", "no time", "no task", "neither"},
     to : {<<"t", "o">>, <<"T", "O">>},
     word : {<<"i", "n">>, <<"a", "f", "t", "e", "r">>, <<"I", "N">>},
     number : {[text |-> <<"1">>, n |-> 1], [text |-> <<"1", "0">>, n |-> 10]},
     gap : {<<>>, <<" ">>},
     unit : {UnitAlternatives[k] : k \in DOMAIN UnitAlternatives}
                \cup {<<"S">>, <<"M", "I", "N", "U", "T", "E", "S">>},
     task : {CallMom, <<"x">>},
     pad : {<<>>, <<" ">>}]
    IN
    {in \in Phrasings :
        /\ in.layout \in {"no time", "neither"} =>
               in.word = <<"i", "n">> /\ in.number.n = 1 /\ in.gap = <<>> /\ in.unit = <<"s">>
        /\ in.layout \in {"no task", "neither"} =>
               in.to = <<"t", "o">> /\ in.task = <<"x">> /\ in.pad = <<>>}

\* the text of the message
MessageText(in) ==
    LET time == in.word \o <<" ">> \o in.number.text \o in.gap \o in.unit
        padded == in.pad \o in.task \o in.pad
    IN  CASE in.layout = "task first" ->
                 RemindMe \o in.to \o <<" ">> \o padded \o <<" ">> \o time
          [] in.layout = "time first" ->
                 RemindMe \o time \o <<" ">> \o in.to \o <<" ">> \o padded
          [] in.layout = "time, task, time" ->
                 RemindMe \o time \o <<" ">> \o in.to \o <<" ">> \o padded \o <<" ">>
                     \o <<"i", "n", " ", "5", " ", "h", "o", "u", "r", "s">>
          [] in.layout = "no time" -> RemindMe \o in.to \o <<" ">> \o padded
          [] in.layout = "no task" -> RemindMe \o time
          [] OTHER -> RemindMe \o <<"l", "a", "t", "e", "r">>

ParseInit ==
    parse \in {[done |-> FALSE, in |-> in, text |-> MessageText(in), result |-> NoneResult] :
                  in \in ParseInputs}

\* the message is parsed
ParseReminder ==
    /\ ~parse.done
    /\ parse' = [parse EXCEPT !.done = TRUE,
                              !.result = parse_natural_language_reminder(parse.text)]

-----------------------------------------------------------------------------
(* main.py: on_message.  @bot.event stores the coroutine under its name, so of *)
(* the two definitions of on_message the later one is the handler.            *)

MaxDispatched == 3

\* the two definitions of on_message: lines 232-249 end after the trigger check,
\* lines 316-335 go on to process_llm_message
OnMessageDefinitions ==
    <<[lines |-> 232, calls_llm |-> FALSE], [lines |-> 316, calls_llm |-> TRUE]>>

\* bot.event: setattr(bot, "on_message", coro)
\* (faulty variant: every definition stays registered)
EventHandlersAll(definitions) == definitions
EventHandlers(definitions) == <<definitions[Len(definitions)]>>

\* w in s.lower(), w in lower case
Contains(s, w) == \E i \in DOMAIN s : LiteralAt(s, i, w)

NoInbound == [content |-> <<>>, guild |-> TRUE, reply |-> <<>>]

\* the messages that arrive: who wrote it, its content, the message it replies to, and
\* for a message that process_llm_message can be given, the same content in runs
Message(by_bot, text, referenced, reference_text, reference_by_bot, inbound) ==
    [author_is_bot |-> by_bot, text |-> text, referenced |-> referenced,
     reference_text |-> reference_text, reference_by_bot |-> reference_by_bot,
     inbound |-> inbound]

NoMessage == Message(FALSE, <<>>, FALSE, <<>>, FALSE, NoInbound)

DispatchMessages ==
    LET BareTrigger == [content |-> <<Run("scottbott", 0, 9)>>, guild |-> TRUE, reply |-> <<>>]
        MentionHello ==
            [content |-> <<Mention, Space, Run("ScottBott", 0, 9), Space, Run("hello", 0, 5)>>,
             guild |-> TRUE, reply |-> <<Run("earlier", 0, 7)>>]
    IN
    { (* a user: "scottbott" *)
      Message(FALSE, <<"s", "c", "o", "t", "t", "b", "o", "t", "t">>,
              FALSE, <<>>, FALSE, BareTrigger),
      (* a user: "<@bot> ScottBott hello", replying to "earlier" of a user *)
      Message(FALSE, <<"<", "@", "b", "o", "t", ">", " ", "S", "c", "o", "t", "t", "B", "o", "t", "t", " ", "h", "e", "l", "l", "o">>,
              TRUE, <<"e", "a", "r", "l", "i", "e", "r">>, FALSE, MentionHello),
      (* a user: "<@bot> ScottBott hello", replying to "earlier" of the bot *)
      Message(FALSE, <<"<", "@", "b", "o", "t", ">", " ", "S", "c", "o", "t", "t", "B", "o", "t", "t", " ", "h", "e", "l", "l", "o">>,
              TRUE, <<"e", "a", "r", "l", "i", "e", "r">>, TRUE, MentionHello),
      (* the bot: "scottbott" *)
      Message(TRUE, <<"s", "c", "o", "t", "t", "b", "o", "t", "t">>,
              FALSE, <<>>, FALSE, BareTrigger),
      (* the bot: "ScottBott remind me to x in 1 s" *)
      Message(TRUE, <<"S", "c", "o", "t", "t", "B", "o", "t", "t", " ", "r", "e", "m", "i", "n", "d", " ", "m", "e", " ", "t", "o", " ", "x", " ", "i", "n", " ", "1", " ", "s">>,
              FALSE, <<>>, FALSE, NoInbound),
      (* a user: "hello" *)
      Message(FALSE, <<"h", "e", "l", "l", "o">>,
              FALSE, <<>>, FALSE, NoInbound),
      (* a user: "hello", replying to "earlier" of a user *)
      Message(FALSE, <<"h", "e", "l", "l", "o">>,
              TRUE, <<"e", "a", "r", "l", "i", "e", "r">>, FALSE, NoInbound),
      (* a user: "remind me later" *)
      Message(FALSE, <<"r", "e", "m", "i", "n", "d", " ", "m", "e", " ", "l", "a", "t", "e", "r">>,
              FALSE, <<>>, FALSE, NoInbound),
      (* a user: "ScottBott remind me to x in 1 s" *)
      Message(FALSE, <<"S", "c", "o", "t", "t", "B", "o", "t", "t", " ", "r", "e", "m", "i", "n", "d", " ", "m", "e", " ", "t", "o", " ", "x", " ", "i", "n", " ", "1", " ", "s">>,
              FALSE, <<>>, FALSE, NoInbound),
      (* a user: "remind me in 0 s to x" *)
      Message(FALSE, <<"r", "e", "m", "i", "n", "d", " ", "m", "e", " ", "i", "n", " ", "0", " ", "s", " ", "t", "o", " ", "x">>,
              FALSE, <<>>, FALSE, NoInbound),
      (* a user: "Remind me to x in 720 hours" *)
      Message(FALSE, <<"R", "e", "m", "i", "n", "d", " ", "m", "e", " ", "t", "o", " ", "x", " ", "i", "n", " ", "7", "2", "0", " ", "h", "o", "u", "r", "s">>,
              FALSE, <<>>, FALSE, NoInbound),
      (* a user: "scottbott remind me to x in 2592001 s" *)
      Message(FALSE, <<"s", "c", "o", "t", "t", "b", "o", "t", "t", " ", "r", "e", "m", "i", "n", "d", " ", "m", "e", " ", "t", "o", " ", "x", " ", "i", "n", " ", "2", "5", "9", "2", "0", "0", "1", " ", "s">>,
              FALSE, <<>>, FALSE, NoInbound),
      (* a user: "set a reminder to x in 43201 min", replying to "earlier" of the bot *)
      Message(FALSE, <<"s", "e", "t", " ", "a", " ", "r", "e", "m", "i", "n", "d", "e", "r", " ", "t", "o", " ", "x", " ", "i", "n", " ", "4", "3", "2", "0", "1", " ", "m", "i", "n">>,
              TRUE, <<"e", "a", "r", "l", "i", "e", "r">>, TRUE, NoInbound) }

\* lines 328-331: the trigger condition
Trigger(m) ==
    \/ Contains(m.text, <<"s", "c", "o", "t", "t", "b", "o", "t", "t">>)
    \/ m.referenced /\ Contains(m.reference_text, <<"s", "c", "o", "t", "t", "b", "o", "t", "t">>)
    \/ m.referenced /\ m.reference_by_bot

\* lines 192-203: what handle_reminder makes of the content; parsed is what
\* parse_natural_language_reminder returns for it
ReminderRequest(text, parsed) ==
    IF /\ ~Contains(text, <<"r", "e", "m", "i", "n", "d", " ">>)
       /\ ~Contains(text, <<"s", "e", "t", " ", "a", " ", "r", "e", "m", "i", "n", "d", "e", "r">>)
    THEN "none"
    ELSE IF parsed.none \/ parsed.reminder = <<>> THEN "none"
    ELSE IF TooFar(parsed.seconds) THEN "rejected"
    ELSE "accepted"

NoDispatch ==
    [n |-> 0, msg |-> NoMessage, pending |-> <<>>, reminder_runs |-> 0, llm_runs |-> 0,
     handled |-> FALSE, created_before |-> 0]

\* a message arrives from the gateway and its handlers are scheduled
Deliver ==
    /\ dispatch.pending = <<>>
    /\ dispatch.n < MaxDispatched
    /\ \E m \in DispatchMessages :
          dispatch' = [n |-> dispatch.n + 1, msg |-> m,
                       pending |-> EventHandlers(OnMessageDefinitions),
                       reminder_runs |-> 0, llm_runs |-> 0, handled |-> FALSE,
                       created_before |-> Len(created)]
    /\ UNCHANGED <<channel_memories, llmVars, remVars>>

\* lines 316-335 (232-249): a scheduled on_message runs: handle_reminder, and when
\* that did not handle the message and the trigger condition holds, process_llm_message
RunOnMessage ==
    /\ dispatch.pending # <<>>
    /\ \E parsed \in {parse_natural_language_reminder(dispatch.msg.text)} :
       \E request \in {ReminderRequest(dispatch.msg.text, parsed)} :
       LET definition == Head(dispatch.pending)
           m == dispatch.msg
           ran == [dispatch EXCEPT !.pending = Tail(@)]
       IN  IF m.author_is_bot
           THEN /\ dispatch' = ran
                /\ UNCHANGED <<channel_memories, llmVars, remVars>>
           ELSE IF request # "none"
           THEN /\ HandleReminder
                /\ last_reply' = "rejected" <=> request = "rejected"
                /\ request = "accepted" =>
                      created'[Len(created')].trigger_time = now + parsed.seconds
                /\ dispatch' = [ran EXCEPT !.reminder_runs = @ + 1, !.handled = TRUE]
                /\ UNCHANGED <<channel_memories, llmVars>>
           ELSE IF Trigger(m) /\ definition.calls_llm
           THEN /\ \E h \in Handlers :
                      /\ Receive(h)
                      /\ task'[h].user_input = Clean(m.inbound)
                /\ dispatch' = [ran EXCEPT !.reminder_runs = @ + 1, !.llm_runs = @ + 1]
                /\ UNCHANGED remVars
           ELSE /\ dispatch' = [ran EXCEPT !.reminder_runs = @ + 1]
                /\ UNCHANGED <<channel_memories, llmVars, remVars>>

-----------------------------------------------------------------------------
(* main.py: purge_slash *)

PurgeLimit == 1000          \* line 363
BulkDeleteLimit == 100      \* line 376

\* the amounts asked for, and how many messages the channel holds
Amounts == 0 .. PurgeLimit + 1
Histories == {0, 1, 100, 250, 1000}

\* line 376  (faulty variant: everything that remains in one request)
BatchSizeWhole(remaining) == remaining
BatchSize(remaining) == IF remaining < BulkDeleteLimit THEN remaining ELSE BulkDeleteLimit

NoPurge ==
    [pc |-> "none", permitted |-> FALSE, amount |-> 0, held |-> 0, history |-> 0,
     remaining |-> 0, deleted_count |-> 0, batches |-> <<>>, report |-> "none"]

\* lines 357-372  (faulty variant: the amount is checked before the permission)
PurgeInvokeRangeFirst ==
    /\ purge.pc = "none"
    /\ \E amount \in Amounts, held \in Histories, permitted \in BOOLEAN :
          LET asked == [NoPurge EXCEPT !.permitted = permitted, !.amount = amount,
                                       !.held = held, !.history = held]
          IN  purge' =
                 IF amount < 1 \/ amount > PurgeLimit
                 THEN [asked EXCEPT !.pc = "done", !.report = "bad amount"]
                 ELSE IF ~permitted
                 THEN [asked EXCEPT !.pc = "done", !.report = "no permission"]
                 ELSE [asked EXCEPT !.pc = "loop", !.remaining = amount]

\* lines 357-372: the command is invoked; the permission is checked (359-361), then
\* the amount (363-365); either reply ends the command before anything is fetched
PurgeInvoke ==
    /\ purge.pc = "none"
    /\ \E amount \in Amounts, held \in Histories, permitted \in BOOLEAN :
          LET asked == [NoPurge EXCEPT !.permitted = permitted, !.amount = amount,
                                       !.held = held, !.history = held]
          IN  purge' =
                 IF ~permitted THEN [asked EXCEPT !.pc = "done", !.report = "no permission"]
                 ELSE IF amount < 1 \/ amount > PurgeLimit
                 THEN [asked EXCEPT !.pc = "done", !.report = "bad amount"]
                 ELSE [asked EXCEPT !.pc = "loop", !.remaining = amount]

\* lines 374-389: one pass of the loop: up to batch_size messages are fetched and
\* deleted in one request, which may raise (lines 393-395)
PurgeBatch ==
    /\ purge.pc = "loop"
    /\ purge.remaining > 0
    /\ LET batch_size == BatchSize(purge.remaining)
           messages_to_delete == IF batch_size < purge.history THEN batch_size
                                 ELSE purge.history
       IN  IF messages_to_delete = 0
           THEN purge' = [purge EXCEPT !.pc = "done", !.report = "deleted"]
           ELSE \E ok \in BOOLEAN :
                   purge' =
                      IF ok
                      THEN [purge EXCEPT
                               !.history = @ - messages_to_delete,
                               !.batches = Append(@, messages_to_delete),
                               !.deleted_count = @ + messages_to_delete,
                               !.remaining = @ - messages_to_delete]
                      ELSE [purge EXCEPT !.pc = "done", !.report = "failed"]

\* lines 374 and 391: nothing remains, the count is reported
PurgeReport ==
    /\ purge.pc = "loop"
    /\ purge.remaining = 0
    /\ purge' = [purge EXCEPT !.pc = "done", !.report = "deleted"]

-----------------------------------------------------------------------------
(* The specifications *)

LLMIdle ==
    /\ env_PRIMARY_LLM = "unset" /\ startup_PRIMARY_LLM = "unset" /\ env_changes = 0
    /\ received = 0
    /\ task = <<>> /\ calls = <<>> /\ log = <<>> /\ sent = <<>>

RemindersIdle ==
    /\ file = MissingFile /\ now = 0 /\ poller = <<>> /\ ticks = <<>>
    /\ finished = NoFinished /\ last_drain = NoDrain
    /\ created = <<>> /\ popped = {} /\ last_reply = "none"

\* no message is being parsed or dispatched and no purge is running
NoParse == [done |-> FALSE]
AuxIdle ==
    /\ parse = NoParse /\ dispatch = NoDispatch /\ purge = NoPurge
    /\ delivered = NoneDelivered

\* what the message path leaves alone
LLMFrame == UNCHANGED <<built, remVars, auxVars>>

\* the message path: process_llm_message over get_response
Init ==
    /\ LLMInit
    /\ channel_memories = <<>>
    /\ built = NoBuild
    /\ RemindersIdle
    /\ AuxIdle

Next ==
    \/ \E h \in Handlers : Receive(h) /\ LLMFrame
    \/ \E h \in Handlers : FirstProviderFail(h) /\ LLMFrame
    \/ \E h \in Handlers : SecondProviderFail(h) /\ LLMFrame
    \/ \E h \in Handlers : ProviderReturn(h) /\ LLMFrame
    \/ \E h \in Handlers : ProviderTimeout(h) /\ LLMFrame

Spec == Init /\ [][Next]_vars

\* the message path with a PRIMARY_LLM setting that changes while the process runs;
\* here a message arrives when the one before it has been handled
OneAtATime == \A h \in Handlers : task[h].pc \in {"idle", "done"}

NextEnv ==
    \/ \E h \in Handlers : OneAtATime /\ Receive(h) /\ LLMFrame
    \/ \E h \in Handlers : FirstProviderFail(h) /\ LLMFrame
    \/ \E h \in Handlers : SecondProviderFail(h) /\ LLMFrame
    \/ \E h \in Handlers : ProviderReturn(h) /\ LLMFrame
    \/ \E h \in Handlers : ProviderTimeout(h) /\ LLMFrame
    \/ SetEnv /\ LLMFrame

SpecEnv == Init /\ [][NextEnv]_vars

\* what the reminder path leaves alone
RemindersFrame == UNCHANGED <<channel_memories, built, llmVars, auxVars>>

\* the reminder path: handle_reminder and the check_reminders_loop tasks
InitReminders ==
    /\ RemindersInit
    /\ channel_memories = <<>>
    /\ built = NoBuild
    /\ LLMIdle
    /\ AuxIdle

NextReminders ==
    \/ \E p \in Pollers : OnReady(p) /\ RemindersFrame
    \/ HandleReminder /\ RemindersFrame
    \/ \E p \in Pollers : TickStart(p) /\ RemindersFrame
    \/ \E p \in Pollers : DeliveryDone(p) /\ RemindersFrame
    \/ Advance /\ RemindersFrame

SpecReminders == InitReminders /\ [][NextReminders]_vars

\* one loop with the errors a tick can meet; a sleep ends and a delivery ends
NextPoller ==
    \/ OnReady(1) /\ RemindersFrame
    \/ HandleReminder /\ RemindersFrame
    \/ TickStart(1) /\ RemindersFrame
    \/ TickReadFails(1) /\ RemindersFrame
    \/ DeliveryDone(1) /\ RemindersFrame
    \/ DeliveryDoneWriteFails(1) /\ RemindersFrame
    \/ Advance /\ RemindersFrame

FairPoller ==
    /\ WF_vars((TickStart(1) \/ TickReadFails(1)) /\ RemindersFrame)
    /\ WF_vars((DeliveryDone(1) \/ DeliveryDoneWriteFails(1)) /\ RemindersFrame)

SpecPoller == InitReminders /\ [][NextPoller]_vars /\ FairPoller

\* the loops of any number of on_ready events, with the sends counted; no read or
\* write of the file fails here
DeliveryFrame == UNCHANGED <<channel_memories, built, llmVars, parse, dispatch, purge>>

NextDelivery ==
    \/ \E p \in Pollers : OnReady(p) /\ RemindersFrame
    \/ HandleReminder /\ RemindersFrame
    \/ \E p \in Pollers : TickStart(p) /\ RemindersFrame
    \/ \E p \in Pollers : DeliveryDone(p) /\ CountSend(p) /\ DeliveryFrame
    \/ Advance /\ RemindersFrame

SpecDelivery == InitReminders /\ [][NextDelivery]_vars

\* the prompt builder
InitPrompt ==
    /\ PromptInit
    /\ LLMIdle
    /\ RemindersIdle
    /\ AuxIdle

NextPrompt ==
    \/ PSaveContext /\ UNCHANGED <<llmVars, remVars, auxVars>>
    \/ PBuild /\ UNCHANGED <<llmVars, remVars, auxVars>>

SpecPrompt == InitPrompt /\ [][NextPrompt]_vars

\* the reminder parser on its own
InitParse ==
    /\ ParseInit
    /\ channel_memories = <<>>
    /\ built = NoBuild
    /\ LLMIdle
    /\ RemindersIdle
    /\ dispatch = NoDispatch /\ purge = NoPurge /\ delivered = NoneDelivered

NextParse ==
    \/ ParseReminder /\ UNCHANGED <<channel_memories, built, llmVars, remVars, dispatch, purge,
                                   delivered>>

SpecParse == InitParse /\ [][NextParse]_vars

\* the dispatch of inbound messages: the answers of the providers are not awaited
InitDispatch ==
    /\ channel_memories = <<>>
    /\ built = NoBuild
    /\ LLMInit
    /\ RemindersInit
    /\ AuxIdle

NextDispatch ==
    \/ Deliver /\ UNCHANGED <<built, parse, purge, delivered>>
    \/ RunOnMessage /\ UNCHANGED <<built, parse, purge, delivered>>

SpecDispatch == InitDispatch /\ [][NextDispatch]_vars

\* the purge command; a request to the platform ends
InitPurge ==
    /\ channel_memories = <<>>
    /\ built = NoBuild
    /\ LLMIdle
    /\ RemindersIdle
    /\ AuxIdle

PurgeFrame ==
    UNCHANGED <<channel_memories, built, llmVars, remVars, parse, dispatch, delivered>>

NextPurge ==
    \/ PurgeInvoke /\ PurgeFrame
    \/ PurgeBatch /\ PurgeFrame
    \/ PurgeReport /\ PurgeFrame

SpecPurge ==
    /\ InitPurge /\ [][NextPurge]_vars
    /\ WF_vars(PurgeBatch /\ PurgeFrame) /\ WF_vars(PurgeReport /\ PurgeFrame)

-----------------------------------------------------------------------------
(* Claims about get_response and process_llm_message *)

AttemptFailed(call, i) == i <= Len(call.attempts) /\ call.attempts[i].outcome = "failed"
AttemptOk(call, i) == i <= Len(call.attempts) /\ call.attempts[i].outcome = "ok"

\* the text names the run t
Mentions(text, t) == \E i \in DOMAIN text : text[i].t = t

GenericApology == Lit("Sorry, I encountered an error while processing your message.", 60)

\* C1: get_response raises if and only if both provider invocations failed, what it
\* raises names both providers, and when one of the two providers answers it returns
\* that provider's text.
C1_RaisesIffBothFail ==
    \A h \in Handlers : \A c \in DOMAIN calls[h] :
        LET call == calls[h][c]
        IN  /\ call.result = "raised" <=> (AttemptFailed(call, 1) /\ AttemptFailed(call, 2))
            /\ call.result = "raised" =>
                   Mentions(call.value, "Gemini") /\ Mentions(call.value, "Perplexity Sonar")
            /\ \A i \in DOMAIN call.attempts :
                   call.attempts[i].outcome = "ok" =>
                       /\ call.result = "returned"
                       /\ call.value = call.attempts[i].text
                       /\ call.value # <<>>

\* both cases at once: one message whose call raised with Sonar first, and one whose
\* second provider answered after the first had failed
C1_Witness ==
    /\ \E h \in Handlers : \E c \in DOMAIN calls[h] :
          calls[h][c].result = "raised" /\ AttemptFailed(calls[h][c], 2)
    /\ \E h \in Handlers : \E c \in DOMAIN calls[h] :
          calls[h][c].result = "returned" /\ AttemptFailed(calls[h][c], 1)

\* C3: the second provider is invoked exactly when the first one failed, with the
\* prompt and the memory of the call; when it answers, get_response returns its text
\* and the log holds the failure of the first and the use of the second.
C3_Failover ==
    \A h \in Handlers : \A c \in DOMAIN calls[h] :
        LET call == calls[h][c]
        IN  /\ Len(call.attempts) = 2 <=> AttemptFailed(call, 1)
            /\ c = 1 => call.prompt = task[h].user_input
            /\ call.memory = task[h].channel
            /\ \A i \in DOMAIN call.attempts :
                   /\ call.attempts[i].provider = call.order[i]
                   /\ call.attempts[i].prompt = call.prompt
                   /\ call.attempts[i].memory = call.memory
            /\ (AttemptFailed(call, 1) /\ AttemptOk(call, 2)) =>
                   /\ call.result = "returned"
                   /\ call.value = call.attempts[2].text
                   /\ call.value[1].t = call.order[2]
                   /\ \E i, j \in DOMAIN log[h] :
                         /\ i < j
                         /\ log[h][i].event = "failed, falling back"
                         /\ log[h][i].provider = call.order[1]
                         /\ log[h][j].event = "using"
                         /\ log[h][j].provider = call.order[2]

C3_Witness ==
    \E h \in Handlers :
        /\ Len(calls[h]) = 1
        /\ AttemptFailed(calls[h][1], 1) /\ AttemptOk(calls[h][1], 2)
        /\ calls[h][1].order[2] = "gemini"
        /\ task[h].pc = "done"

BothFailed(h) == \E c \in DOMAIN calls[h] : calls[h][c].result = "raised"

\* C4: when both providers fail for a message, nothing of that message is saved to the
\* channel's memory, and nothing but the generic apology is sent: no sent text holds
\* any part of the error raised.
C4_BothFailApology ==
    \A h \in Handlers : BothFailed(h) =>
        /\ task[h].saved = <<>>
        /\ \A i \in DOMAIN channel_memories[task[h].channel] :
              \A j \in DOMAIN channel_memories[task[h].channel][i] :
                  channel_memories[task[h].channel][i][j].k
                      \notin {10 * task[h].m + 1, 10 * task[h].m + 2}
        /\ \A i \in DOMAIN sent[h] :
              /\ sent[h][i] = GenericApology
              /\ ~Mentions(sent[h][i], "Both ") /\ ~Mentions(sent[h][i], " failed")
              /\ ~Mentions(sent[h][i], "Gemini") /\ ~Mentions(sent[h][i], "Perplexity Sonar")

\* both providers failed in the rewrite call of a message whose first answer was too
\* long, and the apology was sent
C4_Witness ==
    \E h \in Handlers :
        /\ Len(calls[h]) = 2
        /\ calls[h][2].result = "raised"
        /\ sent[h] = <<GenericApology>>
        /\ channel_memories[task[h].channel] # <<>>

\* the first t characters of a text that is one run
Cut(text, t) == <<[text[1] EXCEPT !.n = t]>>

\* C10: a message makes a second get_response call exactly when its first response is
\* longer than 4000 characters, and never a third; the second call's prompt is the
\* rewrite instruction with the first 1500 characters of the response and "..."; when
\* that call times out, the text sent is the first 3997 characters of the response
\* and "...".
C10_OneRewrite ==
    \A h \in Handlers : calls[h] # <<>> =>
        LET first == calls[h][1]
            truncated == Cut(first.value, 3997) \o Lit("...", 3)
        IN  /\ Len(calls[h]) <= 2
            /\ Len(calls[h]) = 2 <=> (first.result = "returned" /\ StrLen(first.value) > 4000)
            /\ Len(calls[h]) = 2 =>
                  /\ calls[h][2].prompt = Lit("Please rewrite the following response to be under 4000 characters while keeping the key points and sarcastic tone: ", 115) \o Cut(first.value, 1500) \o Lit("...", 3)
                  /\ StrLen(calls[h][2].prompt) = 115 + 1500 + 3
            /\ (Len(calls[h]) = 2 /\ calls[h][2].result = "cancelled") =>
                  /\ task[h].pc = "done"
                  /\ task[h].response_text = truncated
                  /\ StrLen(truncated) = 4000
                  /\ \A i \in DOMAIN sent[h] : sent[h][i] \in {truncated, GenericApology}
                  /\ task[h].saved # <<>> => sent[h] = <<truncated>>

C10_Witness ==
    \E h \in Handlers :
        /\ Len(calls[h]) = 2
        /\ StrLen(calls[h][1].value) = 4001
        /\ calls[h][2].result = "cancelled"
        /\ sent[h] = << Cut(calls[h][1].value, 3997) \o Lit("...", 3) >>

\* the order the setting at startup stands for
StartupOrder ==
    IF startup_PRIMARY_LLM \in {"Sonar", "perplexity"} THEN <<"sonar", "gemini">>
    ELSE <<"gemini", "sonar">>

-----------------------------------------------------------------------------
(* Claims about _build_prompt_with_history *)

\* C7: for a history of more than 12 lines the built prompt holds, after the persona,
\* the empty line and the heading, exactly the last 12 lines of the history in their
\* order, then the user's lines and "Assistant:"; no earlier line of the history is
\* among them.  The lines are those of the transcript: a turn of two lines counts twice.
C7_LastTwelveLines ==
    built.done =>
        LET historyLines == SplitLines(Join(built.history, <<NL>>))
            promptLines == SplitLines(built.request.content)
            userLines == Len(SplitLines(built.prompt))
            n == Len(historyLines)
        IN  n > 12 =>
                /\ Len(promptLines) = 3 + 12 + userLines + 1
                /\ \A i \in 1..12 : promptLines[3 + i] = historyLines[n - 12 + i]
                /\ \A j \in 1..(n - 12) :
                       historyLines[j] # <<>> =>
                           \A i \in 1..12 : promptLines[3 + i] # historyLines[j]

\* a history of more than 12 lines whose thirteenth line from the end is the first
\* line of a two-line turn: the prompt starts with that turn's second line
C7_Witness ==
    /\ built.done
    /\ LET historyLines == SplitLines(Join(built.history, <<NL>>))
           promptLines == SplitLines(built.request.content)
       IN  /\ Len(historyLines) > 12
           /\ Len(historyLines) > Len(built.history)
           /\ promptLines[4] # <<>>
           /\ promptLines[4][1].t \in {"u2", "b2"}

\* C9 as claimed: the prompt string built for Sonar carries Sonar's persona and not
\* Gemini's, and the prompt string built for Gemini carries Gemini's and not Sonar's.
C9_OwnPersonaInPrompt ==
    built.done =>
        /\ built.provider = "sonar" =>
              /\ Mentions(built.request.content, "system_message")
              /\ ~Mentions(built.request.content, "system_prompt")
        /\ built.provider = "gemini" =>
              /\ Mentions(built.request.content, "system_prompt")
              /\ ~Mentions(built.request.content, "system_message")

-----------------------------------------------------------------------------
(* Claims about the reminder store *)

Ids(reminders) == [i \in DOMAIN reminders |-> reminders[i].id]
InStore(r) == file.exists /\ file.valid /\ \E i \in DOMAIN file.data : file.data[i] = r

\* C2 as claimed: a reminder handle_reminder has written is in the store until a tick
\* takes it as due.
C2_CreatedStaysUntilDue ==
    \A i \in DOMAIN created : InStore(created[i]) \/ created[i].id \in popped

\* C5: a tick at time T that no other store operation falls into hands to delivery
\* exactly the stored reminders with trigger_time <= T, in their order, and leaves
\* exactly those with trigger_time > T in the file; a tick that follows a finished
\* tick at the same T finds nothing due and leaves the file as it is.
C5_PopDue ==
    (finished.done /\ finished.clean) =>
        /\ [i \in DOMAIN finished.attempted |-> finished.attempted[i].id]
               = Ids(SelectSeq(finished.read, LAMBDA r : r.trigger_time <= finished.T))
        /\ finished.after = SelectSeq(finished.read, LAMBDA r : r.trigger_time > finished.T)
        /\ finished.wrote => file = JsonFile(finished.after)
        /\ finished.second =>
              (finished.attempted = <<>> /\ finished.after = finished.read /\ ~finished.wrote)

\* a tick has delivered what was due and rewritten the file, and the tick that ran
\* right after it at the same T found the reminders it had left and nothing due
C5_Witness ==
    /\ finished.done /\ finished.clean /\ finished.second
    /\ last_drain.valid /\ last_drain.wrote /\ last_drain.T = finished.T
    /\ finished.read # <<>>
    /\ InStore(finished.read[1])

\* C6: when a tick ends, delivery has been attempted for each of its due reminders,
\* whatever the outcome of the deliveries before it, none of the due reminders is in
\* the file the tick leaves and each of the future ones is, as it was read.
C6_DeliveryFailuresIsolated ==
    finished.done =>
        /\ \A i \in DOMAIN finished.read :
               IF finished.read[i].trigger_time <= finished.T
               THEN /\ \E j \in DOMAIN finished.attempted :
                          finished.attempted[j].id = finished.read[i].id
                    /\ ~InStore(finished.read[i])
               ELSE InStore(finished.read[i])
        /\ Len(finished.attempted)
               = Len(SelectSeq(finished.read, LAMBDA r : r.trigger_time <= finished.T))

\* the first of two deliveries failed, the second was still made, and the future
\* reminder is what the tick left in the file
C6_Witness ==
    /\ finished.done
    /\ Len(finished.attempted) = 2
    /\ finished.attempted[1].outcome = "failed"
    /\ finished.attempted[2].outcome = "sent"
    /\ Len(finished.after) = 1
    /\ file = JsonFile(finished.after)

\* C11: a request of more than 30 days is answered with the rejection and changes
\* neither the file nor what was created; a request that is confirmed appends one
\* reminder whose trigger_time is at most the time of its creation plus 30 days; and
\* the file never holds a reminder that was not created so.
C11_ThirtyDayLimit ==
    /\ [](\A i \in DOMAIN file.data : \E j \in DOMAIN created : created[j] = file.data[i])
    /\ [][ /\ last_reply' = "rejected" => (file' = file /\ created' = created)
           /\ created' # created =>
                 /\ last_reply' = "confirmed"
                 /\ Len(created') = Len(created) + 1
                 /\ SubSeq(created', 1, Len(created)) = created
                 /\ created'[Len(created')].trigger_time <= now + 30 * 24 * 3600
                 /\ file' = JsonFile(Append(IF file.valid THEN file.data ELSE <<>>,
                                            created'[Len(created')]))
         ]_vars

\* a request of exactly 30 days was confirmed and is in the file, and the request
\* after it was rejected
C11_Witness ==
    /\ last_reply = "rejected"
    /\ \E i \in DOMAIN created :
          /\ created[i].trigger_time >= 30 * 24 * 3600
          /\ InStore(created[i])

-----------------------------------------------------------------------------
(* Claims about parse_natural_language_reminder *)

\* what the message asks for, as it was put together
AskedSeconds(in) ==
    IF in.layout = "time, task, time" THEN 5 * 3600
    ELSE in.number.n * (CASE LowerChar(in.unit[1]) = "s" -> 1
                          [] LowerChar(in.unit[1]) = "m" -> 60
                          [] OTHER -> 3600)

Phrased(in) == in.layout \in {"task first", "time first", "time, task, time"}

\* C12: for a message with the task and the time in either order the parser returns
\* N, 60 * N or 3600 * N seconds by the unit and the task without the whitespace
\* around it; when the time stands on both sides of the task the first pattern decides;
\* a message with no time or no task gives (None, "", "").
C12_ParseSecondsAndTask ==
    parse.done =>
        IF Phrased(parse.in)
        THEN /\ ~parse.result.none
             /\ parse.result.seconds = AskedSeconds(parse.in)
             /\ parse.result.reminder = parse.in.task
        ELSE parse.result = NoneResult

\* "remind me to call mom in 10 minutes" gave 600 and "call mom"
C12_Witness ==
    /\ parse.done
    /\ parse.text = RemindMe \o <<"t", "o", " ">> \o CallMom
                        \o <<" ", "i", "n", " ", "1", "0", " ">> \o UnitAlternatives[8]
    /\ parse.result.seconds = 600
    /\ parse.result.reminder = CallMom

\* the unit as it was written, in lower case, in the singular for one
AskedUnit(in) ==
    LET unit == LowerText(in.unit)
    IN  IF in.number.n = 1 /\ unit \in {UnitAlternatives[4], UnitAlternatives[8], UnitAlternatives[12]}
        THEN SubSeq(unit, 1, Len(unit) - 1) ELSE unit

\* C13 as claimed: the time string is the number, a space and the unit word as the
\* user wrote it, in lower case, in the singular when the number is 1.
C13_TimeString ==
    (parse.done /\ parse.in.layout \in {"task first", "time first"}) =>
        parse.result.time_str = parse.in.number.text \o <<" ">> \o AskedUnit(parse.in)

-----------------------------------------------------------------------------
(* Claims about the conversation memory in process_llm_message *)

Cancelled(h, c) == c \in DOMAIN calls[h] /\ calls[h][c].result = "cancelled"
Raised(h) == \E c \in DOMAIN calls[h] : calls[h][c].result = "raised"

\* the turn saved by handler h stands in the memory of its channel
InMemory(h) ==
    LET history == channel_memories[task[h].channel]
        turn == task[h].saved[1]
    IN  \E i \in DOMAIN history :
           /\ i + 1 \in DOMAIN history
           /\ history[i] = Lit("User: ", 6) \o turn.input
           /\ history[i + 1] = Lit("Assistant: ", 11) \o turn.output

\* save_context is called at most once for a message, after the response was sent, with
\* the cleaned input and the text sent; not when both providers failed, when the
\* send failed or when the message was the bare trigger word
SavedOnceAfterSend(h) ==
    /\ Len(task[h].saved) <= 1
    /\ task[h].saved # <<>> =>
          /\ task[h].pc = "done"
          /\ sent[h] = <<task[h].saved[1].output>>
          /\ task[h].saved[1].input = task[h].user_input
          /\ task[h].user_input # <<>>
          /\ \E msg \in Inbound : task[h].user_input = Clean(msg)
          /\ InMemory(h)
    /\ Raised(h) => task[h].saved = <<>>
    /\ (task[h].pc = "done" /\ task[h].user_input = <<>>) =>
          task[h].saved = <<>> /\ calls[h] = <<>>
    /\ (task[h].pc = "done" /\ (sent[h] = <<>> \/ sent[h] = <<GenericApology>>)) =>
          task[h].saved = <<>>

\* C14 as claimed: save_context is called at most once per message, only after the
\* response was sent and with the cleaned input and the text sent, and not when a
\* get_response call of the message timed out, when both providers failed, when the
\* send failed or when the message held only the trigger word.
C14_NoSaveAfterTimeout ==
    \A h \in Handlers :
        /\ SavedOnceAfterSend(h)
        /\ (Cancelled(h, 1) \/ Cancelled(h, 2)) => task[h].saved = <<>>

\* C14 amended: as above, but only a timeout of the first call leaves the memory
\* alone; when the rewrite call times out the first response cut to 3997 characters
\* and "..." is sent and, once sent, saved with the cleaned input.
C14_SaveOnceAfterSend ==
    \A h \in Handlers :
        /\ SavedOnceAfterSend(h)
        /\ Cancelled(h, 1) => task[h].saved = <<>>
        /\ (Cancelled(h, 2) /\ task[h].saved # <<>>) =>
              /\ task[h].saved[1].output = TruncateFallback(calls[h][1].value)
              /\ StrLen(task[h].saved[1].output) = 4000

\* one message saved after its rewrite call timed out, another whose first call timed
\* out and left nothing
C14_Witness ==
    /\ \E h \in Handlers : Cancelled(h, 2) /\ task[h].saved # <<>>
    /\ \E h \in Handlers : Cancelled(h, 1) /\ task[h].pc = "done" /\ task[h].saved = <<>>


\* s begins with p
StartsWith(s, p) == Len(s) >= Len(p) /\ SubSeq(s, 1, Len(p)) = p

\* C15: the memory is kept per channel: a step changes the history of channel c only by
\* appending the turn of a message handled in c, a memory once created stays and is only
\* extended, a memory is created empty by the first message of its channel, and every
\* provider request is built from the history of the message's own channel.
C15_MemoryPerChannel ==
    /\ [](\A h \in Handlers :
             task[h].pc # "idle" => task[h].channel \in DOMAIN channel_memories)
    /\ [][ /\ \A c \in DOMAIN channel_memories :
                 /\ c \in DOMAIN channel_memories'
                 /\ StartsWith(channel_memories'[c], channel_memories[c])
                 /\ channel_memories'[c] # channel_memories[c] =>
                       \E h \in Handlers :
                          /\ task[h].channel = c
                          /\ task[h].pc = "await" /\ task'[h].pc = "done"
                          /\ task'[h].saved # <<>>
                          /\ channel_memories'[c] =
                                save_context(channel_memories[c], task[h].user_input,
                                             task'[h].saved[1].output)
           /\ \A c \in DOMAIN channel_memories' \ DOMAIN channel_memories :
                 /\ channel_memories'[c] = <<>>
                 /\ received' = received + 1
                 /\ \E h \in Handlers : task'[h].channel = c /\ task'[h].m = received'
           /\ \A h \in Handlers :
                 calls'[h] # calls[h] =>
                    \A c \in DOMAIN calls'[h] : \A a \in DOMAIN calls'[h][c].attempts :
                       LET attempt == calls'[h][c].attempts[a]
                       IN  attempt.outcome = "pending" =>
                              /\ attempt.memory = task'[h].channel
                              /\ attempt.request =
                                    BuildRequest(attempt.provider, attempt.prompt,
                                                 channel_memories'[task'[h].channel])
         ]_vars

\* a message is being answered in the second channel, whose history is empty, while
\* the first channel holds a turn
C15_Witness ==
    /\ DOMAIN channel_memories = Channels
    /\ channel_memories["c1"] # <<>>
    /\ channel_memories["c2"] = <<>>
    /\ \E h \in Handlers :
          /\ task[h].channel = "c2" /\ task[h].pc = "await"
          /\ calls[h][1].attempts[1].request =
                BuildRequest(calls[h][1].attempts[1].provider, task[h].user_input, <<>>)


\* C16: when the timeout expires during the first get_response call of a message,
\* whichever provider is in flight, the call is cancelled and does not return: the
\* message is finished with the timeout notice as the only thing sent (when that send
\* itself fails, nothing or the apology of the except branch), no provider text is
\* sent, no rewrite call is made, and the step leaves every channel's memory as it was.
C16_FirstCallTimeout ==
    /\ [](\A h \in Handlers :
             Cancelled(h, 1) =>
                LET call == calls[h][1]
                IN  /\ task[h].pc = "done"
                    /\ Len(calls[h]) = 1
                    /\ call.attempts[Len(call.attempts)].outcome = "cancelled"
                    /\ \A a \in DOMAIN call.attempts : call.attempts[a].outcome # "ok"
                    /\ call.value = <<>>
                    /\ sent[h] \in {<<TimeoutNotice>>, <<>>, <<GenericApology>>}
                    /\ task[h].saved = <<>>)
    /\ [][\A h \in Handlers :
             (Cancelled(h, 1)' /\ ~Cancelled(h, 1)) =>
                /\ channel_memories' = channel_memories
                /\ task[h].pc = "await" /\ task[h].call = 1
                /\ Len(sent'[h]) <= 1
         ]_vars

\* the timeout came while the second provider was in flight, the first having failed,
\* and the notice went out
C16_Witness ==
    \E h \in Handlers :
        /\ Cancelled(h, 1)
        /\ AttemptFailed(calls[h][1], 1)
        /\ calls[h][1].attempts[2].outcome = "cancelled"
        /\ sent[h] = <<TimeoutNotice>>

-----------------------------------------------------------------------------
(* Claims about the store file and the dispatch of messages *)

Dispatched == dispatch.n > 0 /\ dispatch.pending = <<>>

\* what handle_reminder answers to the message dispatched
Request == ReminderRequest(dispatch.msg.text, parse_natural_language_reminder(dispatch.msg.text))

C18_OneHandler ==
    Dispatched =>
          LET m == dispatch.msg
              made == Len(created) - dispatch.created_before
          IN  /\ m.author_is_bot =>
                    dispatch.reminder_runs = 0 /\ dispatch.llm_runs = 0 /\ made = 0
              /\ ~m.author_is_bot => dispatch.reminder_runs = 1
              /\ made <= 1
              /\ made = 1 <=> (~m.author_is_bot /\ Request = "accepted")
              /\ dispatch.handled <=> (~m.author_is_bot /\ Request # "none")
              /\ dispatch.llm_runs <= 1
              /\ dispatch.llm_runs = 1 <=>
                    (~m.author_is_bot /\ ~dispatch.handled /\ Trigger(m))
              /\ dispatch.handled => dispatch.llm_runs = 0
              /\ dispatch.n = 1 => received = dispatch.llm_runs

\* a rejected request that names the bot was answered by handle_reminder alone, after a
\* message that went to the LLM
C18_Witness ==
    /\ Dispatched
    /\ dispatch.handled
    /\ Request = "rejected"
    /\ Trigger(dispatch.msg)
    /\ last_reply = "rejected"
    /\ dispatch.llm_runs = 0
    /\ received = 1


\* C19: a loop once started is from then on asleep between two ticks or delivering,
\* whatever error a tick met; a tick that is delivering ends and the loop sleeps
\* again; and a tick ended by an error logged it.
C19_PollerKeepsTicking ==
    /\ [](poller[1].pc # "off" => [](poller[1].pc \in {"sleep", "deliver"}))
    /\ (poller[1].pc = "deliver") ~> (poller[1].pc = "sleep")
    /\ []((finished.done /\ finished.attempted # <<>> /\ ~finished.wrote) => finished.logged)

\* a tick has just ended with its deliveries made and the file not rewritten, the file
\* left unreadable, and the loop asleep
C19_Witness ==
    /\ finished.done /\ finished.logged
    /\ finished.attempted # <<>>
    /\ ~finished.wrote
    /\ file = CorruptFile
    /\ poller[1].pc = "sleep"

-----------------------------------------------------------------------------
(* Claims about purge_slash *)

RECURSIVE Sum(_)
Sum(s) == IF s = <<>> THEN 0 ELSE Head(s) + Sum(Tail(s))

\* ceil(amount / 100)
Requests(amount) == (amount + 99) \div 100

\* C20: for an amount in 1..1000 every delete request holds between 1 and 100
\* messages and the count never exceeds the amount; every pass of the loop takes
\* something off what remains and the command ends with a report; when the channel
\* holds at least `amount` messages and no request fails, ceil(amount/100) requests
\* are made, all of 100 but the last, and the count reported is amount.
C20_PurgeBatches ==
    /\ [](purge.pc # "none" /\ purge.report \notin {"no permission", "bad amount"} =>
             /\ purge.amount \in 1 .. 1000
             /\ \A i \in DOMAIN purge.batches : purge.batches[i] \in 1 .. 100
             /\ purge.deleted_count = Sum(purge.batches)
             /\ purge.deleted_count <= purge.amount
             /\ purge.remaining = purge.amount - purge.deleted_count
             /\ Len(purge.batches) <= Requests(purge.amount)
             /\ (purge.report = "deleted" /\ purge.held >= purge.amount) =>
                   /\ Len(purge.batches) = Requests(purge.amount)
                   /\ \A i \in DOMAIN purge.batches :
                         purge.batches[i] =
                            IF i < Len(purge.batches) THEN 100
                            ELSE purge.amount - 100 * (Len(purge.batches) - 1)
                   /\ purge.deleted_count = purge.amount)
    /\ [][(purge.pc = "loop" /\ purge'.pc = "loop") => purge'.remaining < purge.remaining]_vars
    /\ (purge.pc = "loop") ~> (purge.pc = "done" /\ purge.report \in {"deleted", "failed"})

\* 250 asked for in a channel that holds 250: three requests of 100, 100 and 50
C20_Witness ==
    /\ purge.pc = "done" /\ purge.report = "deleted"
    /\ purge.amount = 250 /\ purge.held = 250
    /\ purge.batches = <<100, 100, 50>>
    /\ purge.deleted_count = 250

\* the command was refused: the invoking user may not manage messages, or the amount
\* is not in 1..1000
Refused == purge.pc # "none" /\ (~purge.permitted \/ purge.amount \notin 1 .. 1000)

\* C21: a purge invoked by a user without the manage-messages permission, or with an
\* amount outside 1..1000, ends at once with a rejection reply and makes no delete
\* request: the channel keeps every message it held; the permission is checked first,
\* so a user without it gets the permission reply whatever the amount, and the amount
\* reply goes only to a permitted user.
C21_RefusedPurgeDeletesNothing ==
    /\ Refused =>
          /\ purge.pc = "done"
          /\ purge.batches = <<>> /\ purge.deleted_count = 0
          /\ purge.history = purge.held
          /\ purge.report = IF ~purge.permitted THEN "no permission" ELSE "bad amount"
    /\ purge.report \in {"no permission", "bad amount"} => Refused

\* a user without the permission asked for an amount that is out of range as well, and
\* was told about the permission
C21_Witness ==
    /\ purge.pc = "done"
    /\ ~purge.permitted /\ purge.amount = PurgeLimit + 1
    /\ purge.held = 250 /\ purge.history = 250
    /\ purge.report = "no permission"


-----------------------------------------------------------------------------
(* Claims about the length of the response *)

\* C22: every text process_llm_message sends to the channel as the LLM answer is at
\* most 4000 characters long, whatever the first call and the rewrite call returned.
C22_SentAtMost4000 ==
    \A h \in Handlers : \A i \in DOMAIN sent[h] :
       sent[h][i] = task[h].response_text => StrLen(sent[h][i]) <= 4000


-----------------------------------------------------------------------------
(* Claims about the delivery of a reminder *)

\* C23: each stored reminder is delivered (its text sent to the channel) at most once,
\* under every interleaving of ticks and creations and for any number of on_ready
\* events.
C23_DeliveredAtMostOnce == \A id \in DOMAIN delivered : delivered[id] <= 1


-----------------------------------------------------------------------------
(* Claims about a rewrite call that fails *)

\* the message of handler h got an over-long first response and the rewrite call ended
\* as `result`
RewriteEnded(h, result) ==
    /\ task[h].pc = "done"
    /\ Len(calls[h]) = 2
    /\ calls[h][2].result = result

\* the text of the hard-truncation fallback for the message of handler h
Fallback(h) == TruncateFallback(calls[h][1].value)

\* C24: the first response cut to 3997 characters plus "..." becomes the response
\* exactly when the rewrite call timed out; when the rewrite call raised because both
\* providers failed, nothing of the first response is sent, whole or cut, the only
\* text sent is the generic apology, nothing is saved for the message, and the step
\* in which the call raised leaves every channel's memory as it was.
C24_FallbackOnlyOnTimeout ==
    /\ [](\A h \in Handlers :
             /\ (task[h].pc = "done" /\ calls[h] # <<>>) =>
                   (task[h].response_text = Fallback(h) <=> RewriteEnded(h, "cancelled"))
             /\ (\E i \in DOMAIN sent[h] : calls[h] # <<>> /\ sent[h][i] = Fallback(h)) =>
                   RewriteEnded(h, "cancelled")
             /\ RewriteEnded(h, "raised") =>
                   /\ \A i \in DOMAIN sent[h] :
                         /\ sent[h][i] = ApologyText(<<>>)
                         /\ \A n \in {1500, 3997, 4000, 4001} :
                               sent[h][i] # Prefix(calls[h][1].value, n)
                   /\ Len(sent[h]) <= 1
                   /\ task[h].saved = <<>>)
    /\ [][\A h \in Handlers :
             (~RewriteEnded(h, "raised") /\ RewriteEnded(h, "raised")') =>
                channel_memories' = channel_memories]_vars

\* a rewrite call has raised after both providers failed, and the user got the apology
C24_Witness ==
    \E h \in Handlers :
       /\ RewriteEnded(h, "raised")
       /\ StrLen(calls[h][1].value) = 4001
       /\ calls[h][2].attempts[1].outcome = "failed"
       /\ calls[h][2].attempts[2].outcome = "failed"
       /\ sent[h] = <<ApologyText(<<>>)>>
       /\ task[h].saved = <<>>


-----------------------------------------------------------------------------
(* Claims about concurrent messages in one channel *)

\* the two lines save_context appends for a turn
TurnLines(user, bot) == <<Lit("User: ", 6) \o user, Lit("Assistant: ", 11) \o bot>>

\* the message of handler h is a completed turn: its response was sent
Completed(h) ==
    /\ task[h].pc = "done"
    /\ task[h].user_input # <<>>
    /\ sent[h] = <<task[h].response_text>>

\* C25: whatever the interleaving of the messages handled in a channel, its transcript is
\* a sequence of turns, each a "User: ..." line followed at once by an "Assistant: ..."
\* line; a step changes a transcript only by appending, in one piece, the two lines of
\* the message whose response was sent in that step, so no turn saved before is lost
\* or split; and the two lines of every completed turn stand in the transcript of its
\* channel.
C25_TurnsKeptWhole ==
    /\ [](\A c \in DOMAIN channel_memories :
             LET history == channel_memories[c]
             IN  /\ Len(history) % 2 = 0
                 /\ \A i \in DOMAIN history :
                       Head(history[i]) =
                          IF i % 2 = 1 THEN Run("User: ", 0, 6) ELSE Run("Assistant: ", 0, 11))
    /\ [](\A h \in Handlers :
             Completed(h) =>
                \E i \in DOMAIN channel_memories[task[h].channel] :
                   /\ i % 2 = 1
                   /\ SubSeq(channel_memories[task[h].channel], i, i + 1) =
                         TurnLines(task[h].user_input, task[h].response_text))
    /\ [][\A c \in DOMAIN channel_memories :
             \/ channel_memories'[c] = channel_memories[c]
             \/ \E h \in Handlers :
                   /\ task[h].channel = c /\ task[h].pc = "await"
                   /\ Completed(h)'
                   /\ channel_memories'[c] =
                         channel_memories[c] \o
                            TurnLines(task[h].user_input, sent'[h][Len(sent'[h])])]_vars

\* two messages were handled in channel c1 at a time and the one received second was
\* answered first: both turns stand whole in the transcript, the second message's first
C25_Witness ==
    /\ task[1].m = 1 /\ task[2].m = 2
    /\ task[1].channel = "c1" /\ task[2].channel = "c1"
    /\ Completed(1) /\ Completed(2)
    /\ channel_memories["c1"] =
          TurnLines(task[2].user_input, task[2].response_text) \o
          TurnLines(task[1].user_input, task[1].response_text)

=============================================================================
